---- MODULE Spec2Model ----
(***************************************************************************)
(* Model of chansen/c-utf8-valid (src/utf8_valid.h): the shift-based DFA   *)
(* for UTF-8 validation, the one-shot validator with its 16-byte ASCII     *)
(* fast path, the maximal-prefix / maximal-subpart scans and the streaming *)
(* validator.                                                              *)
(***************************************************************************)
EXTENDS Integers, Sequences, FiniteSets, TLC

(***************************************************************************)
(* State offsets (bit positions within each row), utf8_valid.h:103-111     *)
(***************************************************************************)
S_ERROR == 0
S_ACCEPT == 6
S_TAIL1 == 16
S_TAIL2 == 1
S_E0 == 19
S_ED == 25
S_F0 == 11
S_F1_F3 == 18
S_F4 == 24

ERR == S_ERROR

\* The C operator | on two unsigned values.
RECURSIVE BitOr(_, _)
BitOr(a, b) ==
  IF a = 0 THEN b
  ELSE IF b = 0 THEN a
  ELSE (IF a % 2 = 1 \/ b % 2 = 1 THEN 1 ELSE 0) + 2 * BitOr(a \div 2, b \div 2)

\* The C operator << on uint32_t.  The largest value any row shifts is
\* 25 << 25 < 2^30, so no bit is ever shifted out of the 32-bit word.
Shl(x, n) == x * (2 ^ n)

\* The C operator >> on uint32_t.
Shr(x, n) == x \div (2 ^ n)

\* The mask 15 in place of 31: a field of 4 bits.
And15(x) == x % 16

\* The C operator & with the mask 31.
And31(x) == x % 32

DFA_ROW(accept, error, tail1, tail2, e0, ed, f0, f1_f3, f4) ==
  BitOr(Shl(accept, S_ACCEPT),
  BitOr(Shl(error, S_ERROR),
  BitOr(Shl(tail1, S_TAIL1),
  BitOr(Shl(tail2, S_TAIL2),
  BitOr(Shl(e0, S_E0),
  BitOr(Shl(ed, S_ED),
  BitOr(Shl(f0, S_F0),
  BitOr(Shl(f1_f3, S_F1_F3),
        Shl(f4, S_F4)))))))))

\* ASCII_ROW with the S_ERROR column set: an ASCII byte resynchronises.
ASCII_ROW_resync == DFA_ROW(S_ACCEPT, S_ACCEPT, ERR, ERR, ERR, ERR, ERR, ERR, ERR)

ASCII_ROW == DFA_ROW(S_ACCEPT, ERR, ERR, ERR, ERR, ERR, ERR, ERR, ERR)
LEAD2_ROW == DFA_ROW(S_TAIL1, ERR, ERR, ERR, ERR, ERR, ERR, ERR, ERR)
LEAD3_ROW == DFA_ROW(S_TAIL2, ERR, ERR, ERR, ERR, ERR, ERR, ERR, ERR)
\* LEAD4_ROW with the target of LEAD3_ROW.
LEAD4_ROW_tail2 == DFA_ROW(S_TAIL2, ERR, ERR, ERR, ERR, ERR, ERR, ERR, ERR)

LEAD4_ROW == DFA_ROW(S_F1_F3, ERR, ERR, ERR, ERR, ERR, ERR, ERR, ERR)
ERROR_ROW == DFA_ROW(ERR, ERR, ERR, ERR, ERR, ERR, ERR, ERR, ERR)

\* CONT_80_8F with the S_E0 column letting 80..8F through to S_TAIL1.
CONT_80_8F_overlong == DFA_ROW(ERR, ERR, S_ACCEPT, S_TAIL1, S_TAIL1, S_TAIL1, ERR, S_TAIL2, S_TAIL2)

CONT_80_8F == DFA_ROW(ERR, ERR, S_ACCEPT, S_TAIL1, ERR, S_TAIL1, ERR, S_TAIL2, S_TAIL2)
CONT_90_9F == DFA_ROW(ERR, ERR, S_ACCEPT, S_TAIL1, ERR, S_TAIL1, S_TAIL2, S_TAIL2, ERR)
\* CONT_A0_BF with the S_ED column letting A0..BF through to S_TAIL1.
CONT_A0_BF_surrogates == DFA_ROW(ERR, ERR, S_ACCEPT, S_TAIL1, S_TAIL1, S_TAIL1, S_TAIL2, S_TAIL2, ERR)

CONT_A0_BF == DFA_ROW(ERR, ERR, S_ACCEPT, S_TAIL1, S_TAIL1, ERR, S_TAIL2, S_TAIL2, ERR)

E0_ROW == DFA_ROW(S_E0, ERR, ERR, ERR, ERR, ERR, ERR, ERR, ERR)
ED_ROW == DFA_ROW(S_ED, ERR, ERR, ERR, ERR, ERR, ERR, ERR, ERR)
F0_ROW == DFA_ROW(S_F0, ERR, ERR, ERR, ERR, ERR, ERR, ERR, ERR)
F4_ROW == DFA_ROW(S_F4, ERR, ERR, ERR, ERR, ERR, ERR, ERR, ERR)

\* static const uint32_t utf8_dfa[256]
utf8_dfa ==
  [c \in 0..255 |->
     IF c <= 127 THEN ASCII_ROW          \* 00-7F
     ELSE IF c <= 143 THEN CONT_80_8F    \* 80-8F
     ELSE IF c <= 159 THEN CONT_90_9F    \* 90-9F
     ELSE IF c <= 191 THEN CONT_A0_BF    \* A0-BF
     ELSE IF c <= 193 THEN ERROR_ROW     \* C0-C1: invalid
     ELSE IF c <= 223 THEN LEAD2_ROW     \* C2-DF: 2-byte lead
     ELSE IF c = 224 THEN E0_ROW         \* E0: first cont A0-BF
     ELSE IF c <= 236 THEN LEAD3_ROW     \* E1-EC: 3-byte lead
     ELSE IF c = 237 THEN ED_ROW         \* ED: first cont 80-9F
     ELSE IF c <= 239 THEN LEAD3_ROW     \* EE-EF: 3-byte lead
     ELSE IF c = 240 THEN F0_ROW         \* F0: first cont 90-BF
     ELSE IF c <= 243 THEN LEAD4_ROW     \* F1-F3: 4-byte lead
     ELSE IF c = 244 THEN F4_ROW         \* F4: first cont 80-8F
     ELSE ERROR_ROW]                     \* F5-FF: invalid

utf8_dfa_step(state, c) == And31(Shr(utf8_dfa[c], state))

\* for (i = 0; i < len; i++) state = utf8_dfa_step(state, src[i]);
\* src is a TLA+ sequence, so src[i] of the code is src[i + 1] here.
RECURSIVE dfa_run_loop(_, _, _, _)
dfa_run_loop(state, src, len, i) ==
  IF i < len
    THEN LET st == utf8_dfa_step(state, src[i + 1])      \* a uint32_t
         IN CASE st \in Nat -> dfa_run_loop(st, src, len, i + 1)
    ELSE state

utf8_dfa_run(state, src, len) == dfa_run_loop(state, src, len, 0)

RECURSIVE maximal_subpart_loop(_, _, _, _)
maximal_subpart_loop(state, s, len, i) ==
  IF i < len
    THEN LET st == utf8_dfa_step(state, s[i + 1])
         IN IF st = S_ACCEPT THEN i + 1
            ELSE IF st = S_ERROR THEN (IF i > 0 THEN i ELSE 1)
            ELSE maximal_subpart_loop(st, s, len, i + 1)
    ELSE len

\* utf8_maximal_subpart with "return i" in place of "return i > 0 ? i : 1".
utf8_maximal_subpart_zero(src, len) ==
  IF len > 0 /\ utf8_dfa_step(S_ACCEPT, src[1]) = S_ERROR
    THEN 0
    ELSE maximal_subpart_loop(S_ACCEPT, src, len, 0)

\* utf8_maximal_subpart with "return i + 1" on S_ERROR, counting the byte
\* that reached S_ERROR.
utf8_maximal_subpart_inclusive(src, len) ==
  LET n == maximal_subpart_loop(S_ACCEPT, src, len, 0)
  IN IF n < len /\ utf8_dfa_run(S_ACCEPT, src, n) \notin {S_ACCEPT, S_ERROR}
       THEN n + 1
       ELSE n

\* utf8_maximal_subpart with "return 1" in place of "return len" after the
\* loop.
utf8_maximal_subpart_one(src, len) ==
  LET n == maximal_subpart_loop(S_ACCEPT, src, len, 0)
  IN IF n = len /\ utf8_dfa_run(S_ACCEPT, src, n) \notin {S_ACCEPT, S_ERROR}
       THEN 1
       ELSE n

\* utf8_maximal_subpart returning at least 1 on the empty buffer too.
utf8_maximal_subpart_progress(src, len) ==
  IF len = 0 THEN 1 ELSE maximal_subpart_loop(S_ACCEPT, src, len, 0)

utf8_maximal_subpart(src, len) == maximal_subpart_loop(S_ACCEPT, src, len, 0)

RECURSIVE maximal_prefix_loop(_, _, _, _, _)
maximal_prefix_loop(state, prefix, s, len, i) ==
  IF i < len
    THEN LET st == utf8_dfa_step(state, s[i + 1])
         IN IF st = S_ACCEPT THEN maximal_prefix_loop(st, i + 1, s, len, i + 1)
            ELSE IF st = S_ERROR THEN prefix
            ELSE maximal_prefix_loop(st, prefix, s, len, i + 1)
    ELSE prefix

\* utf8_maximal_prefix reporting the offset of the byte that reached S_ERROR.
RECURSIVE offending_byte_loop(_, _, _, _)
offending_byte_loop(state, s, len, i) ==
  IF i < len
    THEN LET st == utf8_dfa_step(state, s[i + 1])
         IN IF st = S_ERROR THEN i ELSE offending_byte_loop(st, s, len, i + 1)
    ELSE len

utf8_maximal_prefix_offending(src, len) ==
  LET i == offending_byte_loop(S_ACCEPT, src, len, 0)
  IN IF i = len THEN maximal_prefix_loop(S_ACCEPT, 0, src, len, 0) ELSE i

\* utf8_maximal_prefix with prefix = i in place of prefix = i + 1.
utf8_maximal_prefix_off_by_one(src, len) ==
  LET n == maximal_prefix_loop(S_ACCEPT, 0, src, len, 0)
  IN IF n > 0 THEN n - 1 ELSE 0

utf8_maximal_prefix(src, len) == maximal_prefix_loop(S_ACCEPT, 0, src, len, 0)

\* The sequence s advanced by n bytes (pointer arithmetic s += n).
Advance(s, n) == SubSeq(s, n + 1, Len(s))

\* _mm_movemask_epi8(v) == 0: the mask collects the top bit of each of the
\* 16 bytes at s.
RECURSIVE movemask_epi8(_, _)
movemask_epi8(s, i) ==
  IF i < 16 THEN (s[i + 1] \div 128) * (2 ^ i) + movemask_epi8(s, i + 1) ELSE 0

\* utf8_check_ascii_block16 testing v1 only, without v1 |= v2.
utf8_check_ascii_block16_half(s) == \A i \in 1..8 : s[i] \div 128 = 0

utf8_check_ascii_block16(s) == movemask_epi8(s, 0) = 0

\* The condition of the if in the block loop:
\* state != S_ACCEPT || !utf8_check_ascii_block16(s)
\* without its first disjunct.
block_needs_scan_ascii_only(state, s) == ~utf8_check_ascii_block16(s)

block_needs_scan(state, s) == state # S_ACCEPT \/ ~utf8_check_ascii_block16(s)

\* while (len >= 16) { ... s += 16; len -= 16; }  yields the state, the
\* advanced pointer and the remaining length.
RECURSIVE check_block_loop(_, _, _)
check_block_loop(state, s, len) ==
  IF len >= 16
    THEN LET st == IF block_needs_scan(state, s)
                     THEN utf8_dfa_run(state, s, 16)
                     ELSE state
         IN check_block_loop(st, Advance(s, 16), len - 16)
    ELSE [state |-> state, s |-> s, len |-> len]

\* utf8_check with *cursor = len (the length left after the block loop) in
\* place of *cursor = slen.
utf8_check_cursor_len(src, slen) ==
  LET b == check_block_loop(S_ACCEPT, src, slen)
      state == utf8_dfa_run(b.state, b.s, b.len)
  IN IF state = S_ACCEPT
       THEN [ret |-> TRUE, cursor |-> b.len]
       ELSE [ret |-> FALSE, cursor |-> utf8_maximal_prefix(src, slen)]

\* bool utf8_check(src, slen, &cursor): the returned flag and *cursor.
utf8_check(src, slen) ==
  LET b == check_block_loop(S_ACCEPT, src, slen)
      state == utf8_dfa_run(b.state, b.s, b.len)
  IN IF state = S_ACCEPT
       THEN [ret |-> TRUE, cursor |-> slen]
       ELSE [ret |-> FALSE, cursor |-> utf8_maximal_prefix(src, slen)]

utf8_valid(src, len) == utf8_check(src, len).ret

\* The error return (size_t)-1 of utf8_stream_check.
STREAM_ERROR == -1

\* utf8_stream_init: the state of the handle.
utf8_stream_init == S_ACCEPT

\* The for loop of utf8_stream_check: it either returns from inside the loop
\* on S_ERROR, or ends with a state and the offset of the last S_ACCEPT.
RECURSIVE stream_check_loop(_, _, _, _, _)
stream_check_loop(state, last_accept, p, len, i) ==
  IF i < len
    THEN LET st == utf8_dfa_step(state, p[i + 1])
         IN IF st = S_ACCEPT THEN stream_check_loop(st, i + 1, p, len, i + 1)
            ELSE IF st = S_ERROR
              THEN [error |-> TRUE, state |-> st, last_accept |-> last_accept]
            ELSE stream_check_loop(st, last_accept, p, len, i + 1)
    ELSE [error |-> FALSE, state |-> state, last_accept |-> last_accept]

\* utf8_stream_check without the eof test.
utf8_stream_check_no_eof(s_state, src, len, eof, cur) ==
  LET r == stream_check_loop(s_state, 0, src, len, 0)
  IN IF r.error
       THEN [ret |-> STREAM_ERROR, state |-> S_ACCEPT, cursor |-> r.last_accept]
     ELSE IF r.state # S_ACCEPT
       THEN [ret |-> r.last_accept, state |-> r.state, cursor |-> cur]
     ELSE [ret |-> len, state |-> r.state, cursor |-> cur]

\* utf8_stream_check without s->state = S_ACCEPT on the error paths.
utf8_stream_check_no_reset(s_state, src, len, eof, cur) ==
  LET r == stream_check_loop(s_state, 0, src, len, 0)
  IN IF r.error
       THEN [ret |-> STREAM_ERROR, state |-> s_state, cursor |-> r.last_accept]
     ELSE IF r.state # S_ACCEPT
       THEN IF eof
              THEN [ret |-> STREAM_ERROR, state |-> r.state, cursor |-> r.last_accept]
              ELSE [ret |-> r.last_accept, state |-> r.state, cursor |-> cur]
     ELSE [ret |-> len, state |-> r.state, cursor |-> cur]

\* utf8_stream_check returning len in place of last_accept.
utf8_stream_check_returns_len(s_state, src, len, eof, cur) ==
  LET r == stream_check_loop(s_state, 0, src, len, 0)
  IN IF r.error
       THEN [ret |-> STREAM_ERROR, state |-> S_ACCEPT, cursor |-> r.last_accept]
     ELSE IF r.state # S_ACCEPT
       THEN IF eof
              THEN [ret |-> STREAM_ERROR, state |-> S_ACCEPT, cursor |-> r.last_accept]
              ELSE [ret |-> len, state |-> r.state, cursor |-> cur]
     ELSE [ret |-> len, state |-> r.state, cursor |-> cur]

\* utf8_stream_check with s->state = state stored inside the loop, and no
\* reset on the error return of the loop.
utf8_stream_check_stores_error(s_state, src, len, eof, cur) ==
  LET r == stream_check_loop(s_state, 0, src, len, 0)
  IN IF r.error
       THEN [ret |-> STREAM_ERROR, state |-> r.state, cursor |-> r.last_accept]
     ELSE IF r.state # S_ACCEPT
       THEN IF eof
              THEN [ret |-> STREAM_ERROR, state |-> S_ACCEPT, cursor |-> r.last_accept]
              ELSE [ret |-> r.last_accept, state |-> r.state, cursor |-> cur]
     ELSE [ret |-> len, state |-> r.state, cursor |-> cur]

\* utf8_stream_check with uint32_t state = S_ACCEPT in place of
\* uint32_t state = s->state.
utf8_stream_check_fresh_state(s_state, src, len, eof, cur) ==
  LET r == stream_check_loop(S_ACCEPT, 0, src, len, 0)
  IN IF r.error
       THEN [ret |-> STREAM_ERROR, state |-> S_ACCEPT, cursor |-> r.last_accept]
     ELSE IF r.state # S_ACCEPT
       THEN IF eof
              THEN [ret |-> STREAM_ERROR, state |-> S_ACCEPT, cursor |-> r.last_accept]
              ELSE [ret |-> r.last_accept, state |-> r.state, cursor |-> cur]
     ELSE [ret |-> len, state |-> r.state, cursor |-> cur]

\* size_t utf8_stream_check(s, src, len, eof, &cursor), with s->state and
\* *cursor passed in: the returned value, s->state and *cursor afterwards.
utf8_stream_check(s_state, src, len, eof, cur) ==
  LET r == stream_check_loop(s_state, 0, src, len, 0)
  IN IF r.error
       THEN [ret |-> STREAM_ERROR, state |-> S_ACCEPT, cursor |-> r.last_accept]
     ELSE IF r.state # S_ACCEPT
       THEN IF eof
              THEN [ret |-> STREAM_ERROR, state |-> S_ACCEPT, cursor |-> r.last_accept]
              ELSE [ret |-> r.last_accept, state |-> r.state, cursor |-> cur]
     ELSE [ret |-> len, state |-> r.state, cursor |-> cur]

(***************************************************************************)
(* The Unicode table of well-formed UTF-8 byte sequences (Table 3-7).      *)
(***************************************************************************)
IsTail(c) == c \in 128..191

IsForm(b) ==
  \/ /\ Len(b) = 1
     /\ b[1] \in 0..127
  \/ /\ Len(b) = 2
     /\ b[1] \in 194..223
     /\ IsTail(b[2])
  \/ /\ Len(b) = 3
     /\ \/ b[1] = 224 /\ b[2] \in 160..191
        \/ b[1] \in 225..236 /\ b[2] \in 128..191
        \/ b[1] = 237 /\ b[2] \in 128..159
        \/ b[1] \in 238..239 /\ b[2] \in 128..191
     /\ IsTail(b[3])
  \/ /\ Len(b) = 4
     /\ \/ b[1] = 240 /\ b[2] \in 144..191
        \/ b[1] \in 241..243 /\ b[2] \in 128..191
        \/ b[1] = 244 /\ b[2] \in 128..143
     /\ IsTail(b[3])
     /\ IsTail(b[4])

RECURSIVE WellFormed(_)
WellFormed(b) ==
  \/ Len(b) = 0
  \/ \E k \in 1..4 :
       /\ k <= Len(b)
       /\ IsForm(SubSeq(b, 1, k))
       /\ WellFormed(SubSeq(b, k + 1, Len(b)))

\* The length of the longest prefix of b that is well-formed.
LongestWellFormedPrefix(b) ==
  CHOOSE k \in 0..Len(b) :
    /\ WellFormed(SubSeq(b, 1, k))
    /\ \A j \in (k + 1)..Len(b) : ~WellFormed(SubSeq(b, 1, j))

(***************************************************************************)
(* Inputs.  Buffers are all short strings over one representative byte of  *)
(* every row of the table, every one- and two-byte string, strings placed  *)
(* around runs of ASCII long enough to reach the 16-byte block loop, and   *)
(* the buffers of test_mixed_sequences.                                    *)
(***************************************************************************)
MaxLen == 4
MaxTail == 2

Alphabet == {65, 128, 144, 191, 192, 194, 224, 225, 237, 240, 241, 244}

SeqsUpTo(S, n) == UNION {[1..k -> S] : k \in 0..n}

Pad(n) == [i \in 1..n |-> 97]

PadShapes == {<<16, 0>>, <<15, 0>>, <<15, 16>>, <<14, 16>>, <<16, 16>>, <<15, 32>>}

Ascii16 == <<97, 98, 99, 100, 101, 102, 103, 104, 105, 106, 107, 108, 109, 110, 111, 112>>

TestBuffers ==
  { <<104, 101, 108, 108, 111, 195, 169, 119, 111, 114, 108, 100>>,
    Ascii16 \o <<195, 169>>,
    <<195, 169, 237, 160, 128>>,
    <<226, 130, 172, 237, 160, 128>>,
    <<195, 169, 226, 130, 172, 240, 159, 152, 128>>,
    SubSeq(Ascii16, 1, 15) \o <<195, 169>>,
    Ascii16 \o <<128>> }

\* Every byte value 00..FF alone, after every lead byte, and as the last
\* tail of a 3- and a 4-byte form.
Bytes == 0..255

AllByteBuffers ==
  {<<c>> : c \in Bytes}
    \cup {<<l, c>> : l \in Bytes, c \in Bytes}
    \cup {<<225, 128, c>> : c \in Bytes}
    \cup {<<241, 128, c>> : c \in Bytes}
    \cup {<<241, 128, 128, c>> : c \in Bytes}

\* A byte at the end of the first 16-byte block, a block of ASCII, and a
\* byte after it.
StraddleBuffers == {Pad(15) \o <<l>> \o Pad(16) \o <<t>> : l \in Alphabet, t \in Alphabet}

Buffers ==
  SeqsUpTo(Alphabet, MaxLen)
    \cup AllByteBuffers
    \cup StraddleBuffers
    \cup {Pad(p[1]) \o t \o Pad(p[2]) : p \in PadShapes, t \in SeqsUpTo(Alphabet, MaxTail)}
    \cup TestBuffers

(***************************************************************************)
(* State.                                                                  *)
(*   buf, op, ret, cursor, prev   a caller of the one-shot validator       *)
(*   mprefix, msub, moff          the values returned by utf8_maximal_prefix*)
(*                                and utf8_maximal_subpart, and the offset *)
(*                                into buf the latter was called at        *)
(*   dfa                          utf8_dfa_run, one loop iteration at a    *)
(*                                time                                     *)
(*   loop                         the block loop of utf8_check, one block  *)
(*                                at a time                                *)
(*   stream_state                 utf8_stream_t.state                      *)
(*   sop, chunk, eof, entry, sret, scursor                                 *)
(*                                the last streaming call: its arguments,  *)
(*                                s->state on entry, the value returned    *)
(*                                and the caller's cursor variable         *)
(*   fed, carried, pending, anyErr, sumRet, phase                          *)
(*                                history of the stream since the handle   *)
(*                                was initialised                          *)
(*   rest, carry                  a caller that prepends unconsumed bytes  *)
(***************************************************************************)
VARIABLES buf, op, ret, cursor, prev,
          mprefix, msub, moff,
          dfa, loop,
          stream_state, sop, chunk, eof, entry, sret, scursor,
          fed, carried, pending, anyErr, sumRet, phase,
          rest, carry

checkVars == <<buf, op, ret, cursor, prev>>
streamVars == <<stream_state, sop, chunk, eof, entry, sret, scursor,
                fed, carried, pending, anyErr, sumRet, phase>>
callerVars == <<rest, carry>>
scanVars == <<mprefix, msub, moff>>
stepVars == <<dfa, loop>>
vars == <<checkVars, scanVars, stepVars, streamVars, callerVars>>

NoCall == [op |-> "none"]

CheckIdle ==
  /\ op = "idle"
  /\ ret = FALSE
  /\ cursor = 0
  /\ prev = NoCall

\* utf8_stream_t st; utf8_stream_init(&st); size_t _cursor = 0;
StreamFresh ==
  /\ stream_state = utf8_stream_init
  /\ sop = "init"
  /\ chunk = <<>>
  /\ eof = FALSE
  /\ entry = utf8_stream_init
  /\ sret = 0
  /\ scursor = 0
  /\ fed = <<>>
  /\ carried = <<>>
  /\ pending = <<>>
  /\ anyErr = FALSE
  /\ sumRet = 0
  /\ phase = "open"

CallerIdle ==
  /\ rest = <<>>
  /\ carry = <<>>

ScanIdle ==
  /\ mprefix = 0
  /\ msub = 0
  /\ moff = 0

NoLoop == [pc |-> "none"]

StepIdle ==
  /\ dfa = NoLoop
  /\ loop = NoLoop

(***************************************************************************)
(* The one-shot validator.                                                 *)
(***************************************************************************)
InitCheck ==
  /\ buf \in Buffers
  /\ CheckIdle
  /\ ScanIdle
  /\ StepIdle
  /\ StreamFresh
  /\ CallerIdle

\* got_ret = utf8_check(src, len, &offset)
Check ==
  /\ op = "idle"
  /\ LET r == utf8_check(buf, Len(buf))
     IN /\ ret' = r.ret
        /\ cursor' = r.cursor
  /\ op' = "check"
  /\ UNCHANGED <<buf, prev, scanVars, stepVars, streamVars, callerVars>>

\* After a failed check, the caller checks the prefix the cursor delimits:
\* utf8_check(src, offset, &offset).
Recheck ==
  /\ op = "check"
  /\ ~ret
  /\ prev' = [op |-> "check", buf |-> buf, ret |-> ret, cursor |-> cursor]
  /\ buf' = SubSeq(buf, 1, cursor)
  /\ LET r == utf8_check(buf', cursor)
     IN /\ ret' = r.ret
        /\ cursor' = r.cursor
  /\ op' = "recheck"
  /\ UNCHANGED <<scanVars, stepVars, streamVars, callerVars>>

\* got_spl = utf8_maximal_subpart(src, len)
MaximalSubpart ==
  /\ op = "idle"
  /\ msub' = utf8_maximal_subpart(buf, Len(buf))
  /\ moff' = 0
  /\ op' = "subpart"
  /\ UNCHANGED <<buf, ret, cursor, prev, mprefix, stepVars, streamVars, callerVars>>

\* test_utf8 after utf8_check: src += offset; len -= offset;
\* got_spl = utf8_maximal_subpart(src, len)
SubpartAfterCheck ==
  /\ op = "check"
  /\ msub' = utf8_maximal_subpart(Advance(buf, cursor), Len(buf) - cursor)
  /\ moff' = cursor
  /\ op' = "check_subpart"
  /\ UNCHANGED <<buf, ret, cursor, prev, mprefix, stepVars, streamVars, callerVars>>

\* p = utf8_maximal_prefix(src, len)
MaximalPrefix ==
  /\ op = "idle"
  /\ mprefix' = utf8_maximal_prefix(buf, Len(buf))
  /\ op' = "prefix"
  /\ UNCHANGED <<buf, ret, cursor, prev, msub, moff, stepVars, streamVars, callerVars>>

\* utf8_maximal_subpart(src + p, len - p) after p = utf8_maximal_prefix
SubpartAfterPrefix ==
  /\ op = "prefix"
  /\ msub' = utf8_maximal_subpart(Advance(buf, mprefix), Len(buf) - mprefix)
  /\ moff' = mprefix
  /\ op' = "prefix_subpart"
  /\ UNCHANGED <<buf, ret, cursor, prev, mprefix, stepVars, streamVars, callerVars>>

\* utf8_maximal_prefix(src, len) on the buffer utf8_check has just judged.
PrefixAfterCheck ==
  /\ op = "check"
  /\ mprefix' = utf8_maximal_prefix(buf, Len(buf))
  /\ op' = "check_prefix"
  /\ UNCHANGED <<buf, ret, cursor, prev, msub, moff, stepVars, streamVars, callerVars>>

(***************************************************************************)
(* The streaming validator, called with arbitrary chunks and eof flags.    *)
(***************************************************************************)
MaxStream == 4

StreamAlphabet == {65, 128, 191, 195, 226, 237, 240}

\* The bytes of b after its longest well-formed prefix: the sequence still
\* in progress (or ill-formed) at the end of b.
Unfinished(b) == SubSeq(b, LongestWellFormedPrefix(b) + 1, Len(b))

\* One call utf8_stream_check(&st, c, len, e, &_cursor) and the history of
\* the stream it extends.
CallStream(c, e) ==
  LET r == utf8_stream_check(stream_state, c, Len(c), e, scursor)
  IN /\ stream_state' = r.state
     /\ sret' = r.ret
     /\ scursor' = r.cursor
     /\ sop' = "check"
     /\ chunk' = c
     /\ eof' = e
     /\ entry' = stream_state
     /\ fed' = fed \o c
     /\ carried' = pending
     /\ pending' = IF r.ret = STREAM_ERROR THEN <<>> ELSE Unfinished(pending \o c)
     /\ anyErr' = (anyErr \/ r.ret = STREAM_ERROR)
     /\ sumRet' = IF r.ret = STREAM_ERROR THEN sumRet ELSE sumRet + r.ret
     /\ phase' = IF phase = "open" THEN (IF e THEN "final" ELSE "open") ELSE "after"

\* utf8_stream_init(&st); utf8_stream_check(&st, src, len, true, &_cursor)
\* on the buffer utf8_check has just judged.
StreamWhole ==
  /\ op = "check"
  /\ CallStream(buf, TRUE)
  /\ op' = "check_stream"
  /\ UNCHANGED <<buf, ret, cursor, prev, scanVars, stepVars, callerVars>>

NextCheck ==
  \/ Check
  \/ Recheck
  \/ MaximalSubpart
  \/ SubpartAfterCheck
  \/ MaximalPrefix
  \/ SubpartAfterPrefix
  \/ PrefixAfterCheck
  \/ StreamWhole

SpecCheck == InitCheck /\ [][NextCheck]_vars

InitStream ==
  /\ buf = <<>>
  /\ CheckIdle
  /\ ScanIdle
  /\ StepIdle
  /\ StreamFresh
  /\ CallerIdle

\* utf8_stream_init(&st) on a handle in use; the caller starts a new stream.
StreamInit ==
  /\ sop = "check"
  /\ stream_state' = utf8_stream_init
  /\ sop' = "init"
  /\ chunk' = <<>>
  /\ eof' = FALSE
  /\ entry' = utf8_stream_init
  /\ sret' = 0
  /\ scursor' = 0
  /\ fed' = <<>>
  /\ carried' = <<>>
  /\ pending' = <<>>
  /\ anyErr' = FALSE
  /\ sumRet' = 0
  /\ phase' = "open"
  /\ UNCHANGED <<checkVars, scanVars, stepVars, callerVars>>

StreamCheck ==
  /\ \E c \in SeqsUpTo(StreamAlphabet, MaxStream - Len(fed)), e \in BOOLEAN :
       CallStream(c, e)
  /\ UNCHANGED <<checkVars, scanVars, stepVars, callerVars>>

NextStream == StreamInit \/ StreamCheck

SpecStream == InitStream /\ [][NextStream]_vars

\* C1: utf8_check returns true exactly for the buffers that are a
\* concatenation of forms of the well-formed UTF-8 table.
C1_CheckIffWellFormed ==
  op = "check" => (ret <=> WellFormed(buf))

C1_Witness ==
  /\ op = "check"
  /\ ret
  /\ Len(buf) = 4
  /\ buf[1] = 240

\* C2: when utf8_check fails, the cursor is the length of the longest
\* well-formed prefix of the buffer.
C2_FailCursorIsLongestPrefix ==
  (op = "check" /\ ~ret) => cursor = LongestWellFormedPrefix(buf)

C2_Witness ==
  /\ op = "check"
  /\ ~ret
  /\ buf = Ascii16 \o <<128>>
  /\ cursor = 16

\* C3: when utf8_check succeeds, the cursor is the buffer length.
C3_SuccessCursorIsLen ==
  (op = "check" /\ ret) => cursor = Len(buf)

C3_Witness ==
  /\ op = "check"
  /\ ret
  /\ buf = Ascii16 \o <<195, 169>>
  /\ cursor = 18

\* C4: after a failed check with cursor c, checking the prefix b[0:c]
\* succeeds and reports cursor c.
C4_RecheckPrefixSucceeds ==
  op = "recheck" => (ret /\ cursor = prev.cursor /\ cursor = Len(buf))

C4_Witness ==
  /\ op = "recheck"
  /\ prev.buf = <<195, 169, 237, 160, 128>>
  /\ buf = <<195, 169>>
  /\ ret

(***************************************************************************)
(* Streaming claims.                                                       *)
(***************************************************************************)

\* C5: a stream fed in chunks, eof on the last chunk only, gets no error
\* return in any call exactly when utf8_check accepts the whole buffer.
C5_StreamVerdictIsOneShotVerdict ==
  phase = "final" => (~anyErr <=> utf8_check(fed, Len(fed)).ret)

C5_Witness ==
  /\ phase = "final"
  /\ ~anyErr
  /\ fed = <<240, 191, 128, 128>>
  /\ Len(chunk) = 1

\* C6: for a well-formed buffer fed in chunks, eof on the last chunk only,
\* the values returned by the calls add up to the buffer length.
C6_StreamConsumedSumIsLen ==
  (phase = "final" /\ utf8_check(fed, Len(fed)).ret) => sumRet = Len(fed)

\* C8: a call that returns an error leaves s->state at S_ACCEPT, and the
\* next call returns what it returns on a freshly initialised handle.
C8_ErrorResetsToAccept ==
  [][(sop = "check" /\ sret = STREAM_ERROR) =>
       /\ stream_state = S_ACCEPT
       /\ sop' = "check" =>
            LET f == utf8_stream_check(utf8_stream_init, chunk', Len(chunk'), eof', scursor)
            IN /\ sret' = f.ret
               /\ stream_state' = f.state
               /\ scursor' = f.cursor]_vars

C8_Witness ==
  /\ sop = "check"
  /\ sret = STREAM_ERROR
  /\ entry = S_TAIL2
  /\ eof
  /\ Len(chunk) = 1
  /\ stream_state = S_ACCEPT

\* The state after k bytes of c, scanned from state s.
StateAfter(s, c, k) == utf8_dfa_run(s, c, k)

\* The scan of c from state s never reaches S_ERROR.
ScanClean(s, c) == \A k \in 1..Len(c) : StateAfter(s, c, k) # S_ERROR

\* The offset after the last S_ACCEPT reached within c, 0 if there is none.
LastAcceptOffset(s, c) ==
  LET A == {k \in 1..Len(c) : StateAfter(s, c, k) = S_ACCEPT}
  IN IF A = {} THEN 0 ELSE CHOOSE k \in A : \A j \in A : j <= k

\* C9: a chunk scanned without S_ERROR that ends outside S_ACCEPT is an
\* error with cursor at the last accept offset when eof is set, and
\* otherwise returns that offset and persists the state; a chunk that ends in
\* S_ACCEPT returns its full length.
C9_EndOfStreamDistinction ==
  (sop = "check" /\ ScanClean(entry, chunk)) =>
    LET end == StateAfter(entry, chunk, Len(chunk))
    IN IF end # S_ACCEPT
         THEN IF eof
                THEN sret = STREAM_ERROR /\ scursor = LastAcceptOffset(entry, chunk)
                ELSE sret = LastAcceptOffset(entry, chunk) /\ stream_state = end
         ELSE sret = Len(chunk)

C9_Witness ==
  /\ sop = "check"
  /\ chunk = <<65, 195>>
  /\ ~eof
  /\ sret = 1
  /\ stream_state = S_TAIL1

\* C10: on an error return the cursor is the offset, within the chunk, of
\* the first byte of the invalid or truncated sequence: the bytes carried
\* from earlier chunks followed by the chunk are well-formed up to exactly
\* that byte.
C10_ErrorCursorIsSequenceStart ==
  (sop = "check" /\ sret = STREAM_ERROR) =>
    Len(carried) + scursor = LongestWellFormedPrefix(carried \o chunk)

(***************************************************************************)
(* A caller that follows the documented protocol on a well-formed stream:  *)
(* bytes a non-final call did not consume are prepended to the next chunk. *)
(***************************************************************************)
InitProtocol ==
  /\ buf = <<>>
  /\ CheckIdle
  /\ ScanIdle
  /\ StepIdle
  /\ StreamFresh
  /\ rest \in {b \in SeqsUpTo(StreamAlphabet, MaxStream) : utf8_valid(b, Len(b))}
  /\ carry = <<>>

ProtocolFeed ==
  /\ phase = "open"
  /\ \E k \in 0..Len(rest), e \in BOOLEAN :
       /\ e => k = Len(rest)
       /\ LET c == carry \o SubSeq(rest, 1, k)
          IN /\ CallStream(c, e)
             /\ carry' = IF sret' # STREAM_ERROR /\ ~e /\ sret' < Len(c)
                           THEN SubSeq(c, sret' + 1, Len(c))
                           ELSE <<>>
       /\ rest' = SubSeq(rest, k + 1, Len(rest))
  /\ UNCHANGED <<checkVars, scanVars, stepVars>>

NextProtocol == ProtocolFeed

SpecProtocol == InitProtocol /\ [][NextProtocol]_vars

\* C7: a caller following the protocol on a well-formed stream gets no
\* error return from any call.
C7_ProtocolNoError ==
  sop = "check" => sret # STREAM_ERROR

(***************************************************************************)
(* Maximal subpart and maximal prefix.                                     *)
(***************************************************************************)

\* C11: utf8_maximal_subpart is 0 on the empty buffer and lies in
\* 1..len on every other buffer.
C11_SubpartRange ==
  op \in {"subpart", "check_subpart", "prefix_subpart"} =>
    IF Len(buf) - moff = 0 THEN msub = 0 ELSE msub \in 1..(Len(buf) - moff)

C11_Witness ==
  /\ op = "subpart"
  /\ buf = <<128, 65>>
  /\ msub = 1

\* b is a non-empty prefix (proper or not) of a form of the well-formed
\* table.
IsFormPrefix(b) ==
  LET lead3 == \/ b[1] = 224 /\ b[2] \in 160..191
               \/ b[1] \in 225..236 /\ b[2] \in 128..191
               \/ b[1] = 237 /\ b[2] \in 128..159
               \/ b[1] \in 238..239 /\ b[2] \in 128..191
      lead4 == \/ b[1] = 240 /\ b[2] \in 144..191
               \/ b[1] \in 241..243 /\ b[2] \in 128..191
               \/ b[1] = 244 /\ b[2] \in 128..143
  IN \/ /\ Len(b) = 1
        /\ b[1] \in (0..127) \cup (194..244)
     \/ /\ Len(b) = 2
        /\ \/ b[1] \in 194..223 /\ IsTail(b[2])
           \/ lead3
           \/ lead4
     \/ /\ Len(b) = 3
        /\ lead3 \/ lead4
        /\ IsTail(b[3])
     \/ /\ Len(b) = 4
        /\ lead4
        /\ IsTail(b[3])
        /\ IsTail(b[4])

Min(a, b) == IF a < b THEN a ELSE b

\* The largest member of a non-empty finite set of numbers.
Largest(S) == CHOOSE k \in S : \A j \in S : j <= k

\* The Unicode maximal subpart at the start of a non-empty buffer: the
\* complete form b begins with, or else the longest prefix of b that is an
\* initial subsequence of a form, and one byte if there is none.
MaximalSubpartOf(b) ==
  LET K == 1..Min(4, Len(b))
      complete == {k \in K : IsForm(SubSeq(b, 1, k))}
      partial == {k \in K : IsFormPrefix(SubSeq(b, 1, k))}
  IN IF complete # {} THEN Largest(complete)
     ELSE IF partial # {} THEN Largest(partial)
     ELSE 1

\* C12: on a non-empty buffer utf8_maximal_subpart is the length of the
\* complete well-formed sequence the buffer begins with, or else max(1, k)
\* for the longest prefix, of length k, that begins a well-formed sequence.
C12_SubpartIsUnicodeMaximalSubpart ==
  (op = "subpart" /\ Len(buf) > 0) => msub = MaximalSubpartOf(buf)

C12_Witness ==
  /\ op = "subpart"
  /\ buf = <<240, 144, 128, 65>>
  /\ msub = 3

\* A lead byte with a second byte that makes a non-shortest form, a
\* surrogate or a code point above U+10FFFF, followed by tail bytes, whole
\* or truncated to at least 2 bytes; or a lone continuation byte, FE or FF.
IsRejectedEncoding(b) ==
  \/ /\ Len(b) = 1
     /\ b[1] \in (128..191) \cup {254, 255}
  \/ /\ Len(b) \in 2..4
     /\ \A i \in 2..Len(b) : IsTail(b[i])
     /\ \/ b[1] \in 192..193 /\ Len(b) = 2
        \/ b[1] = 224 /\ b[2] \in 128..159 /\ Len(b) <= 3
        \/ b[1] = 240 /\ b[2] \in 128..143
        \/ b[1] = 237 /\ b[2] \in 160..191 /\ Len(b) <= 3
        \/ b[1] = 244 /\ b[2] \in 144..191
        \/ b[1] \in 245..255

\* C13: on a non-shortest form, a surrogate, a code point above U+10FFFF
\* (whole or truncated to 2 bytes or more) and on a lone continuation byte,
\* FE or FF, utf8_check fails with cursor 0 and utf8_maximal_subpart is 1.
C13_RejectedEncodings ==
  (op = "check_subpart" /\ IsRejectedEncoding(buf)) =>
    (~ret /\ cursor = 0 /\ moff = 0 /\ msub = 1)

C13_Witness ==
  /\ op = "check_subpart"
  /\ buf = <<224, 128, 128>>
  /\ ~ret
  /\ msub = 1

\* C14: on a proper non-empty prefix of a well-formed multi-byte sequence
\* utf8_check fails with cursor 0 and utf8_maximal_subpart is the buffer
\* length.
C14_TruncatedSequence ==
  (op = "check_subpart" /\ Len(buf) > 0 /\ IsFormPrefix(buf) /\ ~IsForm(buf)) =>
    (~ret /\ cursor = 0 /\ moff = 0 /\ msub = Len(buf))

C14_Witness ==
  /\ op = "check_subpart"
  /\ buf = <<240, 144, 128>>
  /\ ~ret
  /\ msub = 3

\* C15: with p = utf8_maximal_prefix(b),
\* p + utf8_maximal_subpart(b[p:]) <= len(b).
C15_PrefixPlusSubpartWithinLen ==
  op = "prefix_subpart" => mprefix + msub <= Len(buf)

C15_Witness ==
  /\ op = "prefix_subpart"
  /\ buf = <<195, 169, 237, 160, 128>>
  /\ mprefix = 2
  /\ msub = 1

\* The bytes of b after its longest well-formed prefix and after the
\* maximal subpart that follows it.
AfterFirstSubpart(b) ==
  LET u == Unfinished(b)
  IN IF Len(u) = 0 THEN <<>> ELSE SubSeq(u, MaximalSubpartOf(u) + 1, Len(u))

\* C16 as stated: when the bytes after the first ill-formed subsequence are
\* well-formed, maximal prefix + maximal subpart is the buffer length.
C16_EqualityWhenNoFurtherError ==
  (op = "prefix_subpart" /\ WellFormed(AfterFirstSubpart(buf))) =>
    mprefix + msub = Len(buf)

\* C16 amended: when the buffer is well-formed or ends with its first
\* maximal subpart (no byte follows it), maximal prefix + maximal subpart is
\* the buffer length.
C16_EqualityWhenNothingFollows ==
  (op = "prefix_subpart" /\ Len(AfterFirstSubpart(buf)) = 0) =>
    mprefix + msub = Len(buf)

C16_Witness ==
  /\ op = "prefix_subpart"
  /\ buf = <<65, 225, 128>>
  /\ mprefix = 1
  /\ msub = 2

(***************************************************************************)
(* utf8_dfa_run, one iteration of its loop at a time, entered in any of    *)
(* the nine states.                                                        *)
(***************************************************************************)
MaxRun == 2

States == {S_ERROR, S_ACCEPT, S_TAIL1, S_TAIL2, S_E0, S_ED, S_F0, S_F1_F3, S_F4}

RunInputs == {<<c>> : c \in Bytes} \cup SeqsUpTo(Alphabet, MaxRun)

InitDfa ==
  /\ buf = <<>>
  /\ CheckIdle
  /\ ScanIdle
  /\ loop = NoLoop
  /\ StreamFresh
  /\ CallerIdle
  /\ \E st \in States, b \in RunInputs :
       dfa = [pc |-> "run", state |-> st, src |-> b, i |-> 0, from |-> st]

\* state = utf8_dfa_step(state, src[i]); i++
DfaStep ==
  /\ dfa.pc = "run"
  /\ dfa.i < Len(dfa.src)
  /\ dfa' = [dfa EXCEPT !.state = utf8_dfa_step(dfa.state, dfa.src[dfa.i + 1]),
                        !.i = dfa.i + 1,
                        !.from = dfa.state]
  /\ UNCHANGED <<checkVars, scanVars, loop, streamVars, callerVars>>

\* return state;
DfaReturn ==
  /\ dfa.pc = "run"
  /\ dfa.i >= Len(dfa.src)
  /\ dfa' = [dfa EXCEPT !.pc = "done"]
  /\ UNCHANGED <<checkVars, scanVars, loop, streamVars, callerVars>>

NextDfa == DfaStep \/ DfaReturn

SpecDfa == InitDfa /\ [][NextDfa]_vars

\* The next state the UTF-8 grammar prescribes for state st and byte c.
GrammarNext(st, c) ==
  IF st = S_ACCEPT THEN
    IF c \in 0..127 THEN S_ACCEPT
    ELSE IF c \in 194..223 THEN S_TAIL1
    ELSE IF c = 224 THEN S_E0
    ELSE IF c \in (225..236) \cup (238..239) THEN S_TAIL2
    ELSE IF c = 237 THEN S_ED
    ELSE IF c = 240 THEN S_F0
    ELSE IF c \in 241..243 THEN S_F1_F3
    ELSE IF c = 244 THEN S_F4
    ELSE S_ERROR
  ELSE IF st = S_TAIL1 /\ c \in 128..191 THEN S_ACCEPT
  ELSE IF st = S_TAIL2 /\ c \in 128..191 THEN S_TAIL1
  ELSE IF st = S_E0 /\ c \in 160..191 THEN S_TAIL1
  ELSE IF st = S_ED /\ c \in 128..159 THEN S_TAIL1
  ELSE IF st = S_F0 /\ c \in 144..191 THEN S_TAIL2
  ELSE IF st = S_F1_F3 /\ c \in 128..191 THEN S_TAIL2
  ELSE IF st = S_F4 /\ c \in 128..143 THEN S_TAIL2
  ELSE S_ERROR

\* C17: for each of the 9 states and each byte, utf8_dfa_step yields the
\* next state the grammar prescribes, which is one of the 9 states.
C17_TableMatchesGrammar ==
  (dfa.pc # "none" /\ dfa.i > 0) =>
    /\ dfa.state = GrammarNext(dfa.from, dfa.src[dfa.i])
    /\ dfa.state \in States

C17_Witness ==
  /\ dfa.pc = "run"
  /\ dfa.i = 1
  /\ dfa.from = S_F4
  /\ dfa.src = <<143>>
  /\ dfa.state = S_TAIL2

\* C18: S_ERROR is absorbing: once the scan is in S_ERROR every later byte
\* leaves it in S_ERROR.
C18_ErrorAbsorbing ==
  [][(dfa.pc # "none" /\ dfa.state = S_ERROR) => dfa'.state = S_ERROR]_vars

C18_Witness ==
  /\ dfa.pc = "run"
  /\ dfa.src = <<128, 65>>
  /\ dfa.i = 2
  /\ dfa.from = S_ERROR
  /\ dfa.state = S_ERROR

(***************************************************************************)
(* The ASCII fast path of utf8_check.                                      *)
(***************************************************************************)

\* C19: utf8_check, which skips pure-ASCII blocks met in S_ACCEPT, gives
\* the verdict and the cursor of the plain scan of the whole buffer.
C19_FastPathPreservesResult ==
  op = "check" =>
    LET plain == utf8_dfa_run(S_ACCEPT, buf, Len(buf)) = S_ACCEPT
    IN /\ ret = plain
       /\ cursor = IF plain THEN Len(buf) ELSE utf8_maximal_prefix(buf, Len(buf))

C19_Witness ==
  /\ op = "check"
  /\ buf = Pad(15) \o <<194, 128>> \o Pad(16)
  /\ ret
  /\ cursor = 33

\* utf8_check, one 16-byte block at a time.
BlockBuffers == {b \in Buffers : Len(b) >= 16}

InitBlocks ==
  /\ buf \in BlockBuffers
  /\ CheckIdle
  /\ ScanIdle
  /\ dfa = NoLoop
  /\ StreamFresh
  /\ CallerIdle
  /\ loop = [pc |-> "blocks", state |-> S_ACCEPT, off |-> 0, len |-> Len(buf),
             trace |-> <<>>]

\* The block at s is handed to utf8_dfa_run; s += 16; len -= 16.
BlockScan ==
  /\ loop.pc = "blocks"
  /\ loop.len >= 16
  /\ block_needs_scan(loop.state, Advance(buf, loop.off))
  /\ LET st == utf8_dfa_run(loop.state, Advance(buf, loop.off), 16)
     IN loop' = [loop EXCEPT !.state = st,
                             !.off = loop.off + 16,
                             !.len = loop.len - 16,
                             !.trace = Append(loop.trace, [scanned |-> TRUE, after |-> st])]
  /\ UNCHANGED <<checkVars, scanVars, dfa, streamVars, callerVars>>

\* The block at s is skipped; s += 16; len -= 16.
BlockSkip ==
  /\ loop.pc = "blocks"
  /\ loop.len >= 16
  /\ ~block_needs_scan(loop.state, Advance(buf, loop.off))
  /\ loop' = [loop EXCEPT !.off = loop.off + 16,
                          !.len = loop.len - 16,
                          !.trace = Append(loop.trace,
                                           [scanned |-> FALSE, after |-> loop.state])]
  /\ UNCHANGED <<checkVars, scanVars, dfa, streamVars, callerVars>>

\* After the loop: state = utf8_dfa_run(state, s, len), then the result.
TailScan ==
  /\ loop.pc = "blocks"
  /\ loop.len < 16
  /\ LET st == utf8_dfa_run(loop.state, Advance(buf, loop.off), loop.len)
     IN /\ loop' = [loop EXCEPT !.state = st, !.pc = "done"]
        /\ ret' = (st = S_ACCEPT)
        /\ cursor' = IF st = S_ACCEPT THEN Len(buf)
                                      ELSE utf8_maximal_prefix(buf, Len(buf))
  /\ op' = "check"
  /\ UNCHANGED <<buf, prev, scanVars, dfa, streamVars, callerVars>>

NextBlocks == BlockScan \/ BlockSkip \/ TailScan

SpecBlocks == InitBlocks /\ [][NextBlocks]_vars

\* C20 as stated: once a block has been processed by the table scan, every
\* subsequent block of the buffer is processed by the table scan.
C20_NoSkipAfterScan ==
  loop.pc # "none" =>
    \A i \in 1..Len(loop.trace), j \in 1..Len(loop.trace) :
      (i < j /\ loop.trace[i].scanned) => loop.trace[j].scanned

\* C20 amended: a block that follows a block which left the state other
\* than S_ACCEPT is processed by the table scan, and once a block has left
\* the state S_ERROR every subsequent block is processed by the table scan.
C20_ScanWhileStateNotAccept ==
  loop.pc # "none" =>
    \A i \in 1..Len(loop.trace), j \in 1..Len(loop.trace) :
      /\ (j = i + 1 /\ loop.trace[i].after # S_ACCEPT) => loop.trace[j].scanned
      /\ (i < j /\ loop.trace[i].after = S_ERROR) => loop.trace[j].scanned

C20_Witness ==
  /\ loop.pc = "blocks"
  /\ Len(loop.trace) = 3
  /\ loop.trace[1].scanned
  /\ loop.trace[1].after = S_ERROR
  /\ loop.trace[3].scanned

\* C21: utf8_maximal_prefix(b) = len(b) exactly when utf8_check(b) is true,
\* and in both cases utf8_maximal_prefix(b) is the cursor utf8_check reports.
C21_PrefixAgreesWithCheck ==
  op = "check_prefix" =>
    /\ (mprefix = Len(buf)) <=> ret
    /\ mprefix = cursor

C21_Witness ==
  /\ op = "check_prefix"
  /\ buf = Pad(16) \o <<225, 128>>
  /\ ~ret
  /\ mprefix = 16
  /\ cursor = 16

\* C24: one utf8_stream_check call on a fresh handle with the whole buffer
\* and eof = true returns len(b) exactly when utf8_check(b) is true, and
\* otherwise the error value with the cursor utf8_check reports.
C24_WholeStreamIsCheck ==
  op = "check_stream" =>
    /\ (sret = Len(buf)) <=> ret
    /\ ~ret => (sret = STREAM_ERROR /\ scursor = cursor)

C24_Witness ==
  /\ op = "check_stream"
  /\ buf = Pad(15) \o <<194>> \o Pad(16) \o <<128>>
  /\ ~ret
  /\ sret = STREAM_ERROR
  /\ scursor = 15

\* C22: after utf8_stream_init and any sequence of utf8_stream_check calls
\* the persisted state is never S_ERROR: it is S_ACCEPT or one of the seven
\* in-progress states.
C22_PersistedStateNeverError ==
  stream_state \in {S_ACCEPT, S_TAIL1, S_TAIL2, S_E0, S_ED, S_F0, S_F1_F3, S_F4}

C22_Witness ==
  /\ sop = "check"
  /\ fed = <<237, 191>>
  /\ chunk = <<191>>
  /\ entry = S_ED
  /\ sret = STREAM_ERROR
  /\ stream_state = S_ACCEPT

\* C23: while no call has returned an error and every call had eof = false,
\* the persisted state is utf8_dfa_run(S_ACCEPT, c1 ++ ... ++ ck), wherever
\* the chunk boundaries fall.
C23_PersistedStateIsRunOfStream ==
  (sop = "check" /\ ~anyErr /\ phase = "open") =>
    stream_state = utf8_dfa_run(S_ACCEPT, fed, Len(fed))

C23_Witness ==
  /\ sop = "check"
  /\ ~anyErr
  /\ phase = "open"
  /\ fed = <<240, 191, 128>>
  /\ chunk = <<128>>
  /\ entry = S_TAIL2
  /\ stream_state = S_TAIL1

(***************************************************************************)
(* The streaming validator fed short chunks over every kind of lead byte,  *)
(* so that the handle persists each of the eight states.                   *)
(***************************************************************************)
MaxFed == 2

StreamCheckLeads ==
  /\ \E c \in SeqsUpTo(Alphabet, MaxFed - Len(fed)), e \in BOOLEAN :
       CallStream(c, e)
  /\ UNCHANGED <<checkVars, scanVars, stepVars, callerVars>>

NextStreamLeads == StreamInit \/ StreamCheckLeads

SpecStreamLeads == InitStream /\ [][NextStreamLeads]_vars

\* C25: a chunk of length 0 with eof = false returns 0 and leaves the
\* persisted state unchanged, whatever that state is; with eof = true it
\* returns 0 without error only if the persisted state is S_ACCEPT.
C25_EmptyChunk ==
  (sop = "check" /\ Len(chunk) = 0) =>
    IF eof THEN sret = 0 => entry = S_ACCEPT
           ELSE sret = 0 /\ stream_state = entry

C25_Witness ==
  /\ sop = "check"
  /\ Len(chunk) = 0
  /\ ~eof
  /\ fed = <<244>>
  /\ entry = S_F4
  /\ sret = 0
  /\ stream_state = S_F4

\* The bits of the 5-bit field the step reads for the state at offset s.
FieldBits(s) == s..(s + 4)

\* C27 as stated: the field of the state the step reads is disjoint from
\* the field of every other state, and lies within bits 0..31.
C27_FieldsDisjoint ==
  (dfa.pc # "none" /\ dfa.i > 0) =>
    /\ FieldBits(dfa.from) \subseteq 0..31
    /\ \A s2 \in States \ {dfa.from} : FieldBits(dfa.from) \cap FieldBits(s2) = {}

\* C27 amended: the nine offsets are pairwise distinct and every 5-bit
\* field lies within bits 0..31; the fields overlap, and the field read at
\* the offset of the current state still holds the next state for the byte.
C27_FieldsDistinctAndReadable ==
  (dfa.pc # "none" /\ dfa.i > 0) =>
    /\ Cardinality(States) = 9
    /\ \A s \in States : FieldBits(s) \subseteq 0..31
    /\ And31(Shr(utf8_dfa[dfa.src[dfa.i]], dfa.from)) = GrammarNext(dfa.from, dfa.src[dfa.i])

C27_Witness ==
  /\ dfa.pc = "run"
  /\ dfa.i = 1
  /\ dfa.from = S_F1_F3
  /\ FieldBits(S_F1_F3) \cap FieldBits(S_TAIL1) # {}
  /\ FieldBits(S_F1_F3) \cap FieldBits(S_E0) # {}
  /\ dfa.src = <<191>>
  /\ dfa.state = S_TAIL2

(***************************************************************************)
(* The four scanning operations, one loop iteration at a time.  seen       *)
(* counts the bytes examined by the operation's own pass, seen2 the bytes  *)
(* examined by the utf8_maximal_prefix pass utf8_check makes on failure.   *)
(***************************************************************************)
ScanBuffers ==
  SeqsUpTo(Alphabet, MaxRun)
    \cup {Pad(n) \o t : n \in {15, 16}, t \in SeqsUpTo(Alphabet, 1)}
    \cup {Pad(15) \o <<l>> \o Pad(16) : l \in {65, 128, 194}}

\* The i++ of the for loops, as "i" alone.
next_i_stuck(i) == i

\* The i++ of the for loops.
next_i(i) == i + 1

ScanCall(fn, st, e) ==
  [fn |-> fn, pc |-> IF fn = "check" THEN "blocks" ELSE "loop",
   entry |-> st, state |-> st, eof |-> e, i |-> 0, acc |-> 0, off |-> 0, len |-> Len(buf),
   seen |-> 0, seen2 |-> 0, ok |-> FALSE, out |-> 0]

InitScan ==
  /\ buf \in ScanBuffers
  /\ CheckIdle
  /\ ScanIdle
  /\ dfa = NoLoop
  /\ StreamFresh
  /\ CallerIdle
  /\ \/ \E fn \in {"subpart", "prefix", "check"} : loop = ScanCall(fn, S_ACCEPT, FALSE)
     \/ \E st \in States \ {S_ERROR}, e \in BOOLEAN : loop = ScanCall("stream", st, e)

ScanFrame == UNCHANGED <<checkVars, scanVars, dfa, streamVars, callerVars>>

\* utf8_maximal_subpart: one iteration of the for loop.
SubpartStep ==
  /\ loop.fn = "subpart" /\ loop.pc = "loop"
  /\ loop.i < Len(buf)
  /\ LET st == utf8_dfa_step(loop.state, buf[loop.i + 1])
         l == [loop EXCEPT !.state = st, !.seen = loop.seen + 1]
     IN loop' = IF st = S_ACCEPT
                  THEN [l EXCEPT !.pc = "done", !.out = loop.i + 1]
                ELSE IF st = S_ERROR
                  THEN [l EXCEPT !.pc = "done", !.out = IF loop.i > 0 THEN loop.i ELSE 1]
                ELSE [l EXCEPT !.i = next_i(loop.i)]
  /\ ScanFrame

\* utf8_maximal_subpart: return len.
SubpartEnd ==
  /\ loop.fn = "subpart" /\ loop.pc = "loop"
  /\ loop.i >= Len(buf)
  /\ loop' = [loop EXCEPT !.pc = "done", !.out = Len(buf)]
  /\ ScanFrame

\* utf8_maximal_prefix: one iteration of the for loop; also the pass that
\* utf8_check makes after a failed scan.
PrefixStep ==
  /\ \/ loop.fn = "prefix" /\ loop.pc = "loop"
     \/ loop.fn = "check" /\ loop.pc = "prefix"
  /\ loop.i < Len(buf)
  /\ LET st == utf8_dfa_step(loop.state, buf[loop.i + 1])
         l == IF loop.fn = "check"
                THEN [loop EXCEPT !.state = st, !.seen2 = loop.seen2 + 1]
                ELSE [loop EXCEPT !.state = st, !.seen = loop.seen + 1]
     IN loop' = IF st = S_ACCEPT
                  THEN [l EXCEPT !.acc = loop.i + 1, !.i = next_i(loop.i)]
                ELSE IF st = S_ERROR
                  THEN [l EXCEPT !.pc = "done", !.out = loop.acc]
                ELSE [l EXCEPT !.i = next_i(loop.i)]
  /\ ScanFrame

\* utf8_maximal_prefix: return prefix.
PrefixEnd ==
  /\ \/ loop.fn = "prefix" /\ loop.pc = "loop"
     \/ loop.fn = "check" /\ loop.pc = "prefix"
  /\ loop.i >= Len(buf)
  /\ loop' = [loop EXCEPT !.pc = "done", !.out = loop.acc]
  /\ ScanFrame

\* utf8_stream_check: one iteration of the for loop.
StreamStep ==
  /\ loop.fn = "stream" /\ loop.pc = "loop"
  /\ loop.i < Len(buf)
  /\ LET st == utf8_dfa_step(loop.state, buf[loop.i + 1])
         l == [loop EXCEPT !.state = st, !.seen = loop.seen + 1]
     IN loop' = IF st = S_ACCEPT
                  THEN [l EXCEPT !.acc = loop.i + 1, !.i = next_i(loop.i)]
                ELSE IF st = S_ERROR
                  THEN [l EXCEPT !.pc = "done", !.out = STREAM_ERROR]
                ELSE [l EXCEPT !.i = next_i(loop.i)]
  /\ ScanFrame

\* utf8_stream_check: the code after the loop.
StreamEnd ==
  /\ loop.fn = "stream" /\ loop.pc = "loop"
  /\ loop.i >= Len(buf)
  /\ loop' = [loop EXCEPT !.pc = "done",
                          !.ok = ~(loop.state # S_ACCEPT /\ loop.eof),
                          !.out = IF loop.state # S_ACCEPT
                                    THEN (IF loop.eof THEN STREAM_ERROR ELSE loop.acc)
                                    ELSE Len(buf)]
  /\ ScanFrame

\* utf8_check: the head of the block loop and the test of one block.
CheckBlock ==
  /\ loop.fn = "check" /\ loop.pc = "blocks"
  /\ loop.len >= 16
  /\ loop' = IF block_needs_scan(loop.state, Advance(buf, loop.off))
               THEN [loop EXCEPT !.pc = "block_run", !.i = 0]
               ELSE [loop EXCEPT !.off = loop.off + 16, !.len = loop.len - 16,
                                 !.seen = loop.seen + 16]
  /\ ScanFrame

\* utf8_check: the block loop ends, state = utf8_dfa_run(state, s, len).
CheckTail ==
  /\ loop.fn = "check" /\ loop.pc = "blocks"
  /\ loop.len < 16
  /\ loop' = [loop EXCEPT !.pc = "tail_run", !.i = 0]
  /\ ScanFrame

\* utf8_dfa_run called by utf8_check: one iteration of its for loop.
CheckRunStep ==
  /\ loop.fn = "check" /\ loop.pc \in {"block_run", "tail_run"}
  /\ loop.i < (IF loop.pc = "block_run" THEN 16 ELSE loop.len)
  /\ loop' = [loop EXCEPT !.state = utf8_dfa_step(loop.state, buf[loop.off + loop.i + 1]),
                          !.i = next_i(loop.i),
                          !.seen = loop.seen + 1]
  /\ ScanFrame

\* utf8_dfa_run returns to utf8_check: s += 16; len -= 16 after a block, the
\* verdict after the tail.
CheckRunReturn ==
  /\ loop.fn = "check" /\ loop.pc \in {"block_run", "tail_run"}
  /\ loop.i >= (IF loop.pc = "block_run" THEN 16 ELSE loop.len)
  /\ loop' = IF loop.pc = "block_run"
               THEN [loop EXCEPT !.pc = "blocks", !.off = loop.off + 16,
                                 !.len = loop.len - 16]
             ELSE IF loop.state = S_ACCEPT
               THEN [loop EXCEPT !.pc = "done", !.ok = TRUE, !.out = Len(buf)]
             ELSE [loop EXCEPT !.pc = "prefix", !.state = S_ACCEPT, !.i = 0, !.acc = 0]
  /\ ScanFrame

NextScan ==
  \/ SubpartStep
  \/ SubpartEnd
  \/ PrefixStep
  \/ PrefixEnd
  \/ StreamStep
  \/ StreamEnd
  \/ CheckBlock
  \/ CheckTail
  \/ CheckRunStep
  \/ CheckRunReturn

\* The code is sequential: an operation that has a next step takes it.
SpecScan == InitScan /\ [][NextScan]_vars /\ WF_vars(NextScan)

\* The value each finished operation returns is the value of the operator
\* that models the whole function.
ScanAgreesWithOperators ==
  loop.pc = "done" =>
    CASE loop.fn = "subpart" -> loop.out = utf8_maximal_subpart(buf, Len(buf))
      [] loop.fn = "prefix" -> loop.out = utf8_maximal_prefix(buf, Len(buf))
      [] loop.fn = "check" ->
           /\ loop.ok = utf8_check(buf, Len(buf)).ret
           /\ loop.out = utf8_check(buf, Len(buf)).cursor
      [] loop.fn = "stream" ->
           loop.out = utf8_stream_check(loop.entry, buf, Len(buf), loop.eof, 0).ret

\* No operation examines more than len bytes in a pass; the three scans stop
\* at the first S_ERROR; utf8_check makes one full pass and, on failure
\* only, one utf8_maximal_prefix pass.
ScanWithinBounds ==
  loop.pc # "none" =>
    /\ loop.seen <= Len(buf)
    /\ loop.seen2 <= Len(buf)
    /\ loop.fn # "check" => (loop.state = S_ERROR => loop.pc = "done")
    /\ loop.fn = "check" =>
         /\ loop.pc = "prefix" => loop.state # S_ERROR
         /\ loop.pc \in {"prefix", "done"} => loop.seen = Len(buf)
         /\ (loop.pc = "done" /\ loop.ok) => loop.seen2 = 0

\* C26: every operation terminates on every buffer, after examining at most
\* len bytes per pass and stopping at the first S_ERROR; utf8_check makes one
\* full pass plus, on failure only, one utf8_maximal_prefix pass.
C26_ScansTerminateWithinLen ==
  /\ []ScanWithinBounds
  /\ <>(loop.pc = "done")

C26_Witness ==
  /\ loop.fn = "check"
  /\ loop.pc = "done"
  /\ buf = Pad(16) \o <<128>>
  /\ ~loop.ok
  /\ loop.seen = 17
  /\ loop.seen2 = 17
  /\ loop.out = 16

====
